---- MODULE Spec2Model ----
(***************************************************************************)
(* Model of app.py, the Streamlit diet-plan generator.                     *)
(*                                                                         *)
(* A Streamlit script is re-executed from its first line on every user     *)
(* action.  One action of the model is one complete script run (or a       *)
(* browser-side edit that triggers no run).  The only state that survives  *)
(* a run is the widget state held by Streamlit: the values of the form's   *)
(* fields as of the last form submission (committed) and the values the    *)
(* user has typed since (pending, held by the browser until the form is    *)
(* submitted).                                                             *)
(*                                                                         *)
(* Encodings.  Weights are counted in widget steps of 0.5 kg (an integer   *)
(* h stands for the float h/2, which a double holds exactly), water in     *)
(* steps of 0.1 l, a date as its proleptic Gregorian ordinal.  A Python    *)
(* value that may be None is a sequence: <<>> is None, <<v>> is v.  The    *)
(* emoji that open the user-visible messages of app.py are left out of    *)
(* the message strings (the module is ASCII).                              *)
(***************************************************************************)
EXTENDS Integers, Sequences, FiniteSets, TLC

VARIABLES secrets, environ, today, pending, committed, trigger, status,
          display, configured, outcome, sent, goalLocals, runs, submissions,
          calls, before

vars == <<secrets, environ, today, pending, committed, trigger, status,
          display, configured, outcome, sent, goalLocals, runs, submissions,
          calls, before>>

(***************************************************************************)
(* Program constants: the widget ranges and choices of lines 21-31.        *)
(***************************************************************************)
STEPS_PER_KG == 2
MIN_WEIGHT_KG == 30
MAX_WEIGHT_KG == 200
DAYS_PER_KG == 15
MIN_AGE == 10
MAX_AGE == 100
MIN_HEIGHT == 100
MAX_HEIGHT == 250
MIN_WATER == 5
MAX_WATER == 50

MinWeight == MIN_WEIGHT_KG * STEPS_PER_KG
MaxWeight == MAX_WEIGHT_KG * STEPS_PER_KG
Weights == MinWeight..MaxWeight

GOALS == <<"Lose Weight", "Gain Weight", "Build Muscle">>
DIETS == <<"Vegetarian", "Non-Vegetarian", "Vegan", "Keto", "Paleo">>
SUGARS == <<"Rarely", "Sometimes", "Often", "Daily">>

Range(s) == {s[i] : i \in 1..Len(s)}

(***************************************************************************)
(* Bounds of the model.                                                    *)
(***************************************************************************)
MaxRuns == 4
MaxDayShift == 1
FirstDay == 739922

(***************************************************************************)
(* Python helpers.                                                         *)
(***************************************************************************)
None == <<>>
Some(v) == <<v>>

\* Mutant of Truthy: "is not None" in place of truthiness.
TruthyNotNone(o) == o # None

\* bool(x) of an optional string: None and "" are falsy.
Truthy(o) == o # None /\ o[1] # ""

\* a or b
Or(a, b) == IF Truthy(a) THEN a ELSE b

Abs(n) == IF n < 0 THEN -n ELSE n

\* str() of the float h / STEPS_PER_KG: "80.0", "80.5".
FloatStr(h) ==
    ToString(h \div STEPS_PER_KG) \o "." \o
    ToString(((h % STEPS_PER_KG) * 10) \div STEPS_PER_KG)

\* str() of the float w / 10: "0.5", "2.0".
WaterStr(w) == ToString(w \div 10) \o "." \o ToString(w % 10)

(***************************************************************************)
(* goal_date.strftime('%b %d, %Y') of the date with ordinal n              *)
(* (datetime.date.fromordinal).                                            *)
(***************************************************************************)
MONTHS == <<"Jan", "Feb", "Mar", "Apr", "May", "Jun",
            "Jul", "Aug", "Sep", "Oct", "Nov", "Dec">>

CivilFromOrdinal(n) ==
    LET z   == n + 305
        era == z \div 146097
        doe == z % 146097
        yoe == (doe - doe \div 1460 + doe \div 36524 - doe \div 146096) \div 365
        doy == doe - (365 * yoe + yoe \div 4 - yoe \div 100)
        mp  == (5 * doy + 2) \div 153
        d   == doy - (153 * mp + 2) \div 5 + 1
        m   == IF mp < 10 THEN mp + 3 ELSE mp - 9
        y   == yoe + era * 400 + (IF m <= 2 THEN 1 ELSE 0)
    IN  [year |-> y, month |-> m, day |-> d]

Pad2(k) == IF k < 10 THEN "0" \o ToString(k) ELSE ToString(k)

Strftime(n) ==
    LET c == CivilFromOrdinal(n)
    IN  MONTHS[c.month] \o " " \o Pad2(c.day) \o ", " \o ToString(c.year)

(***************************************************************************)
(* What a run renders: a sequence of elements, in script order.            *)
(***************************************************************************)
El(kind, body) == [kind |-> kind, body |-> body]

ERR_MISSING ==
    El("error", "API key is missing! Please configure it in Streamlit secrets or environment variables.")
TITLE == El("title", "AI-Powered Diet Plan Generator (Gemini)")
SUBHEADER == El("subheader", "The last plan you'll ever need to finally get in shape!")
FORM == El("form", "user_inputs")
BUTTON == El("button", "Calculate Goal Date")
HEADER == El("success", "Here is your AI-generated diet plan:")
FAILED == El("error", "Failed to generate a diet plan.")
ERR_PREFIX == "Error generating diet plan: "

\* What Streamlit shows for an exception that leaves the script.
Uncaught(msg) == El("exception", msg)

(***************************************************************************)
(* Line 7.  st.secrets is a Mapping: get() turns a missing key (KeyError)  *)
(* into None, but reading it when no secrets file exists raises (file not  *)
(* found), which get() does not catch.  os.getenv gives None when the      *)
(* variable is unset.                                                      *)
(***************************************************************************)
SecretsRaises(store) == ~store.available

SecretsGet(store) == IF store.has THEN Some(store.value) ELSE None

Getenv(env) == IF env.has THEN Some(env.value) ELSE None

API_KEY(store, env) == Or(SecretsGet(store), Getenv(env))

(***************************************************************************)
(* Lines 37-40: the goal-date estimate.                                    *)
(***************************************************************************)
\* Python's round(): to nearest, ties to even.
RoundHalfEven(num, den) ==
    LET q == num \div den
        r == num % den
    IN  IF 2 * r < den THEN q
        ELSE IF 2 * r > den THEN q + 1
        ELSE IF q % 2 = 0 THEN q ELSE q + 1

\* Mutant of DaysNeeded: round() in place of int().
DaysNeededRounded(current_weight, target_weight) ==
    RoundHalfEven(Abs(target_weight - current_weight) * DAYS_PER_KG, STEPS_PER_KG)

\* int(abs(target_weight - current_weight) * 15): int() truncates.
DaysNeeded(current_weight, target_weight) ==
    (Abs(target_weight - current_weight) * DAYS_PER_KG) \div STEPS_PER_KG

\* Mutant of GoalDateBlock: the estimate follows the selected goal (no days
\* are needed when the target lies on the wrong side of the current weight).
GoalDateBlockDirected(p, day) ==
    LET signed      == IF p.goal = "Lose Weight"
                       THEN p.current_weight - p.target_weight
                       ELSE p.target_weight - p.current_weight
        days_needed == IF signed < 0 THEN 0
                       ELSE (signed * DAYS_PER_KG) \div STEPS_PER_KG
        goal_date   == day + days_needed
    IN  [today       |-> day,
         days_needed |-> days_needed,
         goal_date   |-> goal_date,
         message     |-> El("success",
                            "You'll reach " \o FloatStr(p.target_weight)
                            \o " kg by " \o Strftime(goal_date) \o "!")]

GoalDateBlock(p, day) ==
    LET days_needed == DaysNeeded(p.current_weight, p.target_weight)
        goal_date   == day + days_needed
    IN  [today       |-> day,
         days_needed |-> days_needed,
         goal_date   |-> goal_date,
         message     |-> El("success",
                            "You'll reach " \o FloatStr(p.target_weight)
                            \o " kg by " \o Strftime(goal_date) \o "!")]

(***************************************************************************)
(* Lines 44-60: the prompt, as the f-string's parts in order (literal      *)
(* text and interpolated values alternate; the prompt is their             *)
(* concatenation).                                                         *)
(***************************************************************************)
\* Mutant of OrNone: the text as it is, empty or not.
OrNoneVerbatim(text) == text

OrNone(text) == IF text # "" THEN text ELSE "None"

Prompt(p) ==
    << "\n    Act as a certified nutritionist. Create a detailed ",
       p.diet_preference,
       " diet plan for:\n    - Age: ",
       ToString(p.age),
       " | Height: ",
       ToString(p.height),
       " cm\n    - Current Weight: ",
       FloatStr(p.current_weight),
       " kg | Target Weight: ",
       FloatStr(p.target_weight),
       " kg\n    - Goal: ",
       p.goal,
       "\n    - Sugar Intake: ",
       p.sugar_intake,
       "\n    - Water Intake: ",
       WaterStr(p.water_intake),
       "L per day\n    - Special Event: ",
       OrNone(p.event),
       "\n    - Interested Sports: ",
       OrNone(p.sports_interest),
       "\n    - Past Fitness Issues: ",
       OrNone(p.past_issues),
       "\n    \n    The plan should include:\n    - A **weekly meal plan** with breakfast, lunch, dinner, and snacks.\n    - Approximate **calorie intake** per day.\n    - Recommended **exercise routines**.\n    - Additional **hydration and recovery tips**.\n    " >>

(***************************************************************************)
(* What the generative service does with one submission: where, if         *)
(* anywhere, an exception is raised, and the shape of the object           *)
(* returned.                                                               *)
(*   ctor    GenerativeModel(...) raises (line 64)                         *)
(*   gen     generate_content(prompt) raises (line 65)                     *)
(*   truthy  bool(response)                                                *)
(*   attr    hasattr(response, "text"): "present", "absent"                *)
(*           (AttributeError), or "raises" (any other exception, which     *)
(*           hasattr lets through)                                         *)
(*   text    response.text                                                 *)
(*   render  reading response.text again or st.markdown raises (line 69)   *)
(***************************************************************************)
ExcMsgs == {"429 quota exceeded", ""}
Texts == {"Day 1: oats", ""}

Returned(truthy, attr, text, attrExc, render) ==
    [ctor |-> None, gen |-> None, truthy |-> truthy, attr |-> attr,
     text |-> text, attrExc |-> attrExc, render |-> render]

CtorRaises(e) ==
    [ctor |-> Some(e), gen |-> None, truthy |-> FALSE, attr |-> "absent",
     text |-> "", attrExc |-> "", render |-> None]

GenRaises(e) ==
    [ctor |-> None, gen |-> Some(e), truthy |-> FALSE, attr |-> "absent",
     text |-> "", attrExc |-> "", render |-> None]

Responses ==
    {CtorRaises(e) : e \in ExcMsgs}
    \cup {GenRaises(e) : e \in ExcMsgs}
    \cup {Returned(b, "absent", "", "", None) : b \in BOOLEAN}
    \cup {Returned(TRUE, "raises", "", e, None) : e \in ExcMsgs}
    \cup {Returned(b, "present", t, "", None) : b \in BOOLEAN, t \in Texts}
    \cup {Returned(TRUE, "present", t, "", Some(e)) : t \in Texts, e \in ExcMsgs}

(***************************************************************************)
(* Lines 67-71: what is shown for a returned response, and the exception   *)
(* raised on the way, if any.                                              *)
(***************************************************************************)
\* Mutant of ResponseBlock: "response.text" tested for truthiness in place of
\* hasattr, so that an empty text counts as none.
ResponseBlockTextTruthy(r) ==
    IF ~r.truthy THEN [shown |-> <<FAILED>>, raised |-> None]
    ELSE IF r.attr = "raises" THEN [shown |-> <<>>, raised |-> Some(r.attrExc)]
    ELSE IF r.attr = "absent" \/ r.text = "" THEN [shown |-> <<FAILED>>, raised |-> None]
    ELSE IF r.render # None THEN [shown |-> <<HEADER>>, raised |-> r.render]
    ELSE [shown |-> <<HEADER, El("markdown", r.text)>>, raised |-> None]

ResponseBlock(r) ==
    IF ~r.truthy THEN [shown |-> <<FAILED>>, raised |-> None]
    ELSE IF r.attr = "raises" THEN [shown |-> <<>>, raised |-> Some(r.attrExc)]
    ELSE IF r.attr = "absent" THEN [shown |-> <<FAILED>>, raised |-> None]
    ELSE IF r.render # None THEN [shown |-> <<HEADER>>, raised |-> r.render]
    ELSE [shown |-> <<HEADER, El("markdown", r.text)>>, raised |-> None]

\* Line 75.
ExceptBlock(e) == <<El("error", ERR_PREFIX \o e)>>

(***************************************************************************)
(* Lines 62-75: the try statement.  escaped is the exception that leaves   *)
(* it (none: "except Exception" catches them all).                         *)
(***************************************************************************)
\* Mutant of TryBlock: the try statement ends after generate_content, so an
\* exception raised while the response is handled leaves the script.
TryBlockNarrow(r, prompt) ==
    IF r.ctor # None
    THEN [shown |-> ExceptBlock(r.ctor[1]), calls |-> 0, sent |-> None,
          escaped |-> None]
    ELSE IF r.gen # None
    THEN [shown |-> ExceptBlock(r.gen[1]), calls |-> 1, sent |-> Some(prompt),
          escaped |-> None]
    ELSE LET b == ResponseBlock(r)
         IN  [shown |-> b.shown, calls |-> 1, sent |-> Some(prompt),
              escaped |-> b.raised]

\* Mutant of TryBlock: generate_content is tried once more when it raises.
TryBlockRetry(r, prompt) ==
    IF r.ctor # None
    THEN [shown |-> ExceptBlock(r.ctor[1]), calls |-> 0, sent |-> None,
          escaped |-> None]
    ELSE IF r.gen # None
    THEN [shown |-> ExceptBlock(r.gen[1]), calls |-> 2, sent |-> Some(prompt),
          escaped |-> None]
    ELSE LET b == ResponseBlock(r)
         IN  [shown |-> b.shown \o
                        (IF b.raised # None THEN ExceptBlock(b.raised[1])
                                            ELSE <<>>),
              calls |-> 1, sent |-> Some(prompt), escaped |-> None]

TryBlock(r, prompt) ==
    IF r.ctor # None
    THEN [shown |-> ExceptBlock(r.ctor[1]), calls |-> 0, sent |-> None,
          escaped |-> None]
    ELSE IF r.gen # None
    THEN [shown |-> ExceptBlock(r.gen[1]), calls |-> 1, sent |-> Some(prompt),
          escaped |-> None]
    ELSE LET b == ResponseBlock(r)
         IN  [shown |-> b.shown \o
                        (IF b.raised # None THEN ExceptBlock(b.raised[1])
                                            ELSE <<>>),
              calls |-> 1, sent |-> Some(prompt), escaped |-> None]

(***************************************************************************)
(* One run of the script, lines 7-75.  button and submitted are what       *)
(* st.button and st.form_submit_button return in this run, p the values    *)
(* the form's widgets return, r the service's behaviour if the run         *)
(* reaches the try statement.                                              *)
(*   status  "crashed" (an exception left the script), "stopped"           *)
(*           (st.stop), "completed"                                        *)
(*   key     the key passed to genai.configure, None if never called       *)
(*   goal    the locals of the goal-date block, None if it did not run     *)
(*   sent    the prompt passed to generate_content, None if not called     *)
(***************************************************************************)
RunScript(store, env, p, button, submitted, day, r) ==
    IF SecretsRaises(store)
    THEN [status |-> "crashed", display |-> <<Uncaught("No secrets files found.")>>,
          key |-> None, goal |-> None, calls |-> 0, sent |-> None]
    ELSE IF ~Truthy(API_KEY(store, env))
    THEN [status |-> "stopped", display |-> <<ERR_MISSING>>,
          key |-> None, goal |-> None, calls |-> 0, sent |-> None]
    ELSE
      LET page == <<TITLE, SUBHEADER, FORM, BUTTON>>
          g    == GoalDateBlock(p, day)
          t    == TryBlock(r, Prompt(p))
          esc  == submitted /\ t.escaped # None
      IN  [status  |-> IF esc THEN "crashed" ELSE "completed",
           display |-> page
                       \o (IF button THEN <<g.message>> ELSE <<>>)
                       \o (IF submitted THEN t.shown ELSE <<>>)
                       \o (IF esc THEN <<Uncaught(t.escaped[1])>> ELSE <<>>),
           key     |-> API_KEY(store, env),
           goal    |-> IF button THEN Some([today |-> g.today,
                                            days_needed |-> g.days_needed,
                                            goal_date |-> g.goal_date])
                                 ELSE None,
           calls   |-> IF submitted THEN t.calls ELSE 0,
           sent    |-> IF submitted THEN t.sent ELSE None]

(***************************************************************************)
(* The inputs of the model.                                                *)
(***************************************************************************)
SecretsStores ==
    { [available |-> FALSE, has |-> FALSE, value |-> ""],
      [available |-> TRUE,  has |-> FALSE, value |-> ""],
      [available |-> TRUE,  has |-> TRUE,  value |-> ""],
      [available |-> TRUE,  has |-> TRUE,  value |-> "key-in-secrets"] }

Environs ==
    { [has |-> FALSE, value |-> ""],
      [has |-> TRUE,  value |-> ""],
      [has |-> TRUE,  value |-> "key-in-env"] }

\* The widgets' initial values: min_value, the first option, "".
DefaultProfile ==
    [age |-> MIN_AGE, height |-> MIN_HEIGHT,
     current_weight |-> MinWeight, target_weight |-> MinWeight,
     goal |-> GOALS[1], diet_preference |-> DIETS[1], sugar_intake |-> SUGARS[1],
     water_intake |-> MIN_WATER, event |-> "", sports_interest |-> "",
     past_issues |-> ""]

SampleProfiles ==
    { DefaultProfile,
      [age |-> 30, height |-> 175, current_weight |-> 160, target_weight |-> 150,
       goal |-> "Lose Weight", diet_preference |-> "Keto", sugar_intake |-> "Often",
       water_intake |-> 20, event |-> "Wedding", sports_interest |-> "",
       past_issues |-> "None"],
      [age |-> MAX_AGE, height |-> MAX_HEIGHT, current_weight |-> MinWeight,
       target_weight |-> MinWeight + 1, goal |-> "Gain Weight",
       diet_preference |-> "Vegan", sugar_intake |-> "Daily",
       water_intake |-> MAX_WATER, event |-> "", sports_interest |-> "Tennis",
       past_issues |-> ""],
      [age |-> 45, height |-> 160, current_weight |-> MaxWeight,
       target_weight |-> MinWeight, goal |-> "Build Muscle",
       diet_preference |-> "Paleo", sugar_intake |-> "Sometimes",
       water_intake |-> 15, event |-> " ", sports_interest |-> "Rowing",
       past_issues |-> "Knee pain"] }

(***************************************************************************)
(* How the last run ended, for the run after it.                           *)
(***************************************************************************)
Shows(el) == el \in Range(display)
ShowsKind(d, kind) == \E i \in 1..Len(d) : d[i].kind = kind
CaughtShown(d) ==
    \E i \in 1..Len(d), e \in ExcMsgs : d[i] = El("error", ERR_PREFIX \o e)

Terminal(trig, d) ==
    IF trig # "submit" THEN "none"
    ELSE IF CaughtShown(d) THEN "exception"
    ELSE IF FAILED \in Range(d) THEN "failed"
    ELSE IF ShowsKind(d, "markdown") THEN "plan"
    ELSE "none"

(***************************************************************************)
(* State and actions.                                                      *)
(***************************************************************************)
Init ==
    /\ secrets \in SecretsStores
    /\ environ \in Environs
    /\ today = FirstDay
    /\ pending = DefaultProfile
    /\ committed = DefaultProfile
    /\ trigger = "none"
    /\ status = "none"
    /\ display = <<>>
    /\ configured = None
    /\ outcome = None
    /\ sent = None
    /\ goalLocals = None
    /\ runs = 0
    /\ submissions = 0
    /\ calls = 0
    /\ before = "none"

\* A run without a submission never reaches the service.
NotConsulted == CtorRaises("")

\* The effect of one run on the state.
Ran(trig, p, res, r) ==
    /\ trigger' = trig
    /\ committed' = p
    /\ status' = res.status
    /\ display' = res.display
    /\ configured' = IF res.key # None THEN res.key ELSE configured
    /\ outcome' = r
    /\ sent' = res.sent
    /\ goalLocals' = res.goal
    /\ runs' = runs + 1
    /\ submissions' = submissions + (IF trig = "submit" THEN 1 ELSE 0)
    /\ calls' = calls + res.calls
    /\ before' = Terminal(trigger, display)
    /\ UNCHANGED <<secrets, environ, today>>

\* The page is opened or rerun: neither button is pressed.
Load ==
    /\ runs < MaxRuns
    /\ Ran("load", committed,
           RunScript(secrets, environ, committed, FALSE, FALSE, today,
                     NotConsulted),
           None)
    /\ UNCHANGED pending

\* The user edits the form's fields; nothing runs until a button is pressed.
Edit ==
    /\ Shows(FORM)
    /\ \E p \in SampleProfiles : p # pending /\ pending' = p
    /\ UNCHANGED <<secrets, environ, today, committed, trigger, status, display,
                   configured, outcome, sent, goalLocals, runs, submissions,
                   calls, before>>

\* 'Calculate Goal Date': the form's pending values are not sent.
PressGoalDate ==
    /\ runs < MaxRuns
    /\ Shows(BUTTON)
    /\ Ran("goal", committed,
           RunScript(secrets, environ, committed, TRUE, FALSE, today,
                     NotConsulted),
           None)
    /\ UNCHANGED pending

\* Mutant of SubmitForm: the run sees the values of the submission before,
\* not the ones just entered.
SubmitFormStale ==
    /\ runs < MaxRuns
    /\ Shows(FORM)
    /\ \E r \in Responses :
          Ran("submit", committed,
              RunScript(secrets, environ, committed, FALSE, TRUE, today, r),
              Some(r))
    /\ UNCHANGED pending

\* 'Generate Diet Plan': the pending values are sent, the script runs.
SubmitForm ==
    /\ runs < MaxRuns
    /\ Shows(FORM)
    /\ \E r \in Responses :
          Ran("submit", pending,
              RunScript(secrets, environ, pending, FALSE, TRUE, today, r),
              Some(r))
    /\ UNCHANGED pending

\* The date changes.
Midnight ==
    /\ today < FirstDay + MaxDayShift
    /\ today' = today + 1
    /\ UNCHANGED <<secrets, environ, pending, committed, trigger, status,
                   display, configured, outcome, sent, goalLocals, runs,
                   submissions, calls, before>>

Next == Load \/ Edit \/ PressGoalDate \/ SubmitForm \/ Midnight

Spec == Init /\ [][Next]_vars

(***************************************************************************)
(* The goal-date estimate over every pair of weights the widgets admit:    *)
(* the states after a page load and one submission of a profile with       *)
(* those weights (the service returned None), from which the goal-date     *)
(* button is pressed.                                                      *)
(***************************************************************************)
KeyInEnv == [has |-> TRUE, value |-> "key-in-env"]
NoKeyInSecrets == [available |-> TRUE, has |-> FALSE, value |-> ""]
ReturnedNone == Returned(FALSE, "absent", "", "", None)

AfterSubmission(p, r, nruns) ==
    LET res == RunScript(NoKeyInSecrets, KeyInEnv, p, FALSE, TRUE, FirstDay, r)
    IN  /\ secrets = NoKeyInSecrets
        /\ environ = KeyInEnv
        /\ today = FirstDay
        /\ pending = p
        /\ committed = p
        /\ trigger = "submit"
        /\ status = res.status
        /\ display = res.display
        /\ configured = res.key
        /\ outcome = Some(r)
        /\ sent = res.sent
        /\ goalLocals = res.goal
        /\ runs = nruns
        /\ submissions = 1
        /\ calls = res.calls
        /\ before = "none"

InitGoal ==
    \E c \in Weights, t \in Weights, g \in Range(GOALS) :
        AfterSubmission([DefaultProfile EXCEPT !.current_weight = c,
                                               !.target_weight = t,
                                               !.goal = g],
                        ReturnedNone, MaxRuns - 1)

SpecGoal == InitGoal /\ [][PressGoalDate]_vars

(***************************************************************************)
(* The prompt over a product of field values: the states after page loads  *)
(* in which the user has filled in the form, from which it is submitted.   *)
(***************************************************************************)
OptionalTexts == {"", "None", "Wedding"}

NumericSamples ==
    { [age |-> MIN_AGE, height |-> MIN_HEIGHT, current_weight |-> MinWeight,
       target_weight |-> MaxWeight, water_intake |-> MIN_WATER],
      [age |-> 30, height |-> 175, current_weight |-> 160,
       target_weight |-> 151, water_intake |-> 23],
      [age |-> MAX_AGE, height |-> MAX_HEIGHT, current_weight |-> MaxWeight - 1,
       target_weight |-> MinWeight, water_intake |-> MAX_WATER] }

PromptProfiles ==
    { [age |-> n.age, height |-> n.height, current_weight |-> n.current_weight,
       target_weight |-> n.target_weight, goal |-> g, diet_preference |-> d,
       sugar_intake |-> s, water_intake |-> n.water_intake, event |-> e,
       sports_interest |-> i, past_issues |-> x] :
      n \in NumericSamples, g \in Range(GOALS), d \in Range(DIETS),
      s \in Range(SUGARS), e \in OptionalTexts, i \in OptionalTexts,
      x \in OptionalTexts }

InitPrompt ==
    LET res == RunScript(NoKeyInSecrets, KeyInEnv, DefaultProfile, FALSE, FALSE,
                         FirstDay, NotConsulted)
    IN  /\ secrets = NoKeyInSecrets
        /\ environ = KeyInEnv
        /\ today = FirstDay
        /\ pending \in PromptProfiles
        /\ committed = DefaultProfile
        /\ trigger = "load"
        /\ status = res.status
        /\ display = res.display
        /\ configured = res.key
        /\ outcome = None
        /\ sent = None
        /\ goalLocals = None
        /\ runs = MaxRuns - 1
        /\ submissions = 0
        /\ calls = 0
        /\ before = "none"

SpecPrompt == InitPrompt /\ [][SubmitForm]_vars

(***************************************************************************)
(*                               The claims                                *)
(***************************************************************************)
GoalRan == trigger = "goal" /\ status = "completed"
WeightGap == Abs(committed.target_weight - committed.current_weight)

\* C1 as stated: pressing 'Calculate Goal Date' computes
\* days = round(|t - c| * 15) and goal_date = today + days, so that a
\* difference of 0.5 kg (product 7.5) is rounded, not truncated.
C1_DaysRounded ==
    GoalRan =>
        /\ goalLocals # None
        /\ goalLocals[1].days_needed =
               RoundHalfEven(WeightGap * DAYS_PER_KG, STEPS_PER_KG)
        /\ goalLocals[1].goal_date = today + goalLocals[1].days_needed

\* C1 as amended: for every pair of weights on the widgets' 0.5 kg grid,
\* pressing 'Calculate Goal Date' computes days as |t - c| * 15 truncated
\* to a whole number (the integer n with n <= |t - c| * 15 < n + 1) and
\* goal_date = today + days; c = 80, t = 75 gives 75 days, and a difference
\* of 0.5 kg (product 7.5) gives 7 days, not 8.
C1_DaysTruncated ==
    GoalRan =>
        /\ goalLocals # None
        /\ LET n == goalLocals[1].days_needed
           IN  /\ n \in Nat
               /\ n * STEPS_PER_KG <= WeightGap * DAYS_PER_KG
               /\ WeightGap * DAYS_PER_KG < (n + 1) * STEPS_PER_KG
               /\ goalLocals[1].today = today
               /\ goalLocals[1].goal_date = today + n
               /\ (committed.current_weight = 160 /\ committed.target_weight = 150
                      => n = 75)
               /\ (WeightGap = 1 => n = 7)
               /\ display[Len(display)] =
                      El("success", "You'll reach " \o FloatStr(committed.target_weight)
                                    \o " kg by " \o Strftime(today + n) \o "!")

\* C1: the estimate has run on a difference of 0.5 kg and gave 7 days.
C1_Witness ==
    /\ GoalRan
    /\ WeightGap = 1
    /\ goalLocals # None
    /\ goalLocals[1].days_needed = 7
    /\ goalLocals[1].goal_date = today + 7

\* C10: for all weights within the widget bounds the estimate is an integer
\* in 0..2550, is 0 when current and target weight are equal, is the same
\* with current and target weight swapped, is the same whatever the goal and
\* the other fields are, and goal_date is never earlier than today.
C10_EstimateBounded ==
    GoalRan =>
        /\ goalLocals # None
        /\ LET n == goalLocals[1].days_needed
           IN  /\ n \in 0..((MAX_WEIGHT_KG - MIN_WEIGHT_KG) * DAYS_PER_KG)
               /\ (committed.current_weight = committed.target_weight => n = 0)
               /\ n = DaysNeeded(committed.target_weight, committed.current_weight)
               /\ goalLocals[1].goal_date >= today
               /\ \A g \in Range(GOALS), q \in SampleProfiles :
                     LET other == GoalDateBlock(
                                     [q EXCEPT !.goal = g,
                                               !.current_weight = committed.current_weight,
                                               !.target_weight = committed.target_weight],
                                     today)
                         swapped == GoalDateBlock(
                                     [q EXCEPT !.goal = g,
                                               !.current_weight = committed.target_weight,
                                               !.target_weight = committed.current_weight],
                                     today)
                     IN  /\ other.days_needed = n
                         /\ other.goal_date = goalLocals[1].goal_date
                         /\ swapped.days_needed = n

\* C10: the estimate has run for the largest difference, with the goal
\* pointing away from the target (gain weight, target below current).
C10_Witness ==
    /\ GoalRan
    /\ committed.goal = "Gain Weight"
    /\ committed.current_weight = MaxWeight
    /\ committed.target_weight = MinWeight
    /\ goalLocals # None
    /\ goalLocals[1].days_needed = 2550

KeyInSecretsStore == secrets.has /\ secrets.value # ""
KeyInEnvironment == environ.has /\ environ.value # ""
Page == <<TITLE, SUBHEADER, FORM, BUTTON>>
Last(d) == d[Len(d)]

C3_KeyFromEitherSource ==
    (runs > 0 /\ (KeyInSecretsStore \/ KeyInEnvironment)) =>
        /\ status = "completed"
        /\ Shows(FORM)
        /\ configured = Some(IF KeyInSecretsStore THEN secrets.value
                                                  ELSE environ.value)

(***************************************************************************)
(* The exception a submission raises, if any, from what the service did:   *)
(* the first of the four places in script order.  A falsy response is      *)
(* never asked for its text.                                               *)
(***************************************************************************)
RaisedBy(r) ==
    IF r.ctor # None THEN r.ctor
    ELSE IF r.gen # None THEN r.gen
    ELSE IF r.truthy /\ r.attr = "raises" THEN Some(r.attrExc)
    ELSE IF r.truthy /\ r.attr = "present" THEN r.render
    ELSE None

Submitted == trigger = "submit" /\ outcome # None

\* C4: on a submission, if model construction, generate_content, or reading
\* or rendering the response text raises an exception e, the run ends
\* normally and the last message displayed is the fixed prefix followed by
\* str(e); no exception leaves the script.
C4_ExceptionCaught ==
    (Submitted /\ RaisedBy(outcome[1]) # None) =>
        /\ status = "completed"
        /\ Last(display) = El("error", ERR_PREFIX \o RaisedBy(outcome[1])[1])
        /\ ~ShowsKind(display, "exception")
        /\ ~Shows(FAILED)

\* C4: a submission has run in which rendering the text raised.
C4_Witness ==
    /\ Submitted
    /\ outcome[1].gen = None /\ outcome[1].ctor = None
    /\ outcome[1].attr = "present"
    /\ outcome[1].render = Some("429 quota exceeded")
    /\ Last(display) = El("error", "Error generating diet plan: 429 quota exceeded")

\* C5 as stated: on a submission whose call returns without raising, the
\* text is rendered after the success header if the object has a textual
\* field and the failure message is rendered if it has none; nothing else
\* about the object (its truthiness) matters.
C5_PresenceAlone ==
    (Submitted /\ RaisedBy(outcome[1]) = None) =>
        /\ outcome[1].attr = "present" =>
               display = Page \o <<HEADER, El("markdown", outcome[1].text)>>
        /\ outcome[1].attr = "absent" => display = Page \o <<FAILED>>

\* C5 as amended: on a submission in which nothing raises, the text is
\* rendered after the success header if the returned object is truthy and
\* has a textual field, whatever the text is (also an empty one); the fixed
\* failure message is rendered if the object is falsy or has no such field.
C5_TruthyAndPresent ==
    (Submitted /\ RaisedBy(outcome[1]) = None) =>
        /\ status = "completed"
        /\ (outcome[1].truthy /\ outcome[1].attr = "present") =>
               display = Page \o <<HEADER, El("markdown", outcome[1].text)>>
        /\ (~outcome[1].truthy \/ outcome[1].attr = "absent") =>
               display = Page \o <<FAILED>>

\* C5: a falsy object that has a text was returned, and the failure message
\* is what is shown.
C5_Witness ==
    /\ Submitted
    /\ RaisedBy(outcome[1]) = None
    /\ ~outcome[1].truthy
    /\ outcome[1].attr = "present"
    /\ outcome[1].text = "Day 1: oats"
    /\ display = Page \o <<FAILED>>

(***************************************************************************)
(* The places of the interpolated values among the parts of the prompt.    *)
(***************************************************************************)
SlotOf ==
    [diet_preference |-> 2, age |-> 4, height |-> 6, current_weight |-> 8,
     target_weight |-> 10, goal |-> 12, sugar_intake |-> 14,
     water_intake |-> 16, event |-> 18, sports_interest |-> 20,
     past_issues |-> 22]

OptionalFields == {"event", "sports_interest", "past_issues"}

\* str() of each field's value.
Shown(p) ==
    [diet_preference |-> p.diet_preference, age |-> ToString(p.age),
     height |-> ToString(p.height), current_weight |-> FloatStr(p.current_weight),
     target_weight |-> FloatStr(p.target_weight), goal |-> p.goal,
     sugar_intake |-> p.sugar_intake, water_intake |-> WaterStr(p.water_intake),
     event |-> p.event, sports_interest |-> p.sports_interest,
     past_issues |-> p.past_issues]

\* C6 as stated: the prompt sent holds every field's value in its place, and
\* for each of event, sports_interest and past_issues the place holds the
\* literal 'None' exactly when the field is empty.
C6_NoneIffEmpty ==
    (Submitted /\ sent # None) =>
        /\ \A f \in DOMAIN SlotOf \ OptionalFields :
               sent[1][SlotOf[f]] = Shown(committed)[f]
        /\ \A f \in OptionalFields :
               /\ committed[f] # "" => sent[1][SlotOf[f]] = committed[f]
               /\ sent[1][SlotOf[f]] = "None" <=> committed[f] = ""

\* C6 as amended: the prompt sent is the fixed template with every field's
\* value (age, height, current weight, target weight, goal, diet preference,
\* sugar intake, water intake) in its place, whatever the service does; the
\* place of each of event, sports_interest and past_issues independently
\* holds the literal 'None' when the field is empty and the field's text
\* verbatim otherwise (a text that is itself 'None' gives the same prompt as
\* an empty field).
C6_PromptSlots ==
    (Submitted /\ sent # None) =>
        /\ Len(sent[1]) = 23
        /\ \A i \in 1..23 :
               i % 2 = 1 => sent[1][i] = Prompt(DefaultProfile)[i]
        /\ \A f \in DOMAIN SlotOf \ OptionalFields :
               sent[1][SlotOf[f]] = Shown(committed)[f]
        /\ \A f \in OptionalFields :
               /\ committed[f] = "" => sent[1][SlotOf[f]] = "None"
               /\ committed[f] # "" => sent[1][SlotOf[f]] = committed[f]

\* C6: a prompt was sent for a profile with an empty event, the sports
\* interest 'None' and a non-empty past issue.
C6_Witness ==
    /\ Submitted
    /\ sent # None
    /\ committed.event = "" /\ sent[1][18] = "None"
    /\ committed.sports_interest = "None" /\ sent[1][20] = "None"
    /\ committed.past_issues = "Wedding" /\ sent[1][22] = "Wedding"
    /\ sent[1][8] = "80.0" /\ sent[1][10] = "75.5" /\ sent[1][16] = "2.3"

\* C7 as stated: the number of generate_content calls equals the number of
\* form submissions: each submission issues exactly one call, a run
\* triggered by anything else none.
C7_OneCallPerSubmission == calls = submissions

\* C7 as amended: every form submission issues at most one generate_content
\* call and never a retry, whatever the outcome: exactly one, unless
\* constructing the model raises, in which case none; a run triggered by
\* anything other than form submission (the goal-date button, a page load)
\* and an edit of the fields issue none.
C7_AtMostOneCallPerSubmission ==
    [][ /\ submissions' = submissions + 1 =>
              /\ trigger' = "submit"
              /\ calls' = calls + (IF outcome'[1].ctor # None THEN 0 ELSE 1)
        /\ submissions' = submissions => calls' = calls
        /\ trigger' = "submit" /\ runs' = runs + 1 =>
              submissions' = submissions + 1
        /\ submissions' \in {submissions, submissions + 1}
      ]_vars

\* C7: two submissions and a press of the goal-date button have run, and
\* each submission made its one call.
C7_Witness ==
    /\ trigger = "goal"
    /\ runs = 4
    /\ submissions = 2
    /\ calls = 2

Count(d, P(_)) == Cardinality({i \in 1..Len(d) : P(d[i])})
IsPlan(el) == el.kind = "markdown"
IsFailed(el) == el = FAILED
IsCaught(el) == \E e \in ExcMsgs : el = El("error", ERR_PREFIX \o e)

\* C8: every submission ends with exactly one of the plan text, the generic
\* failure message and the exception message rendered; the success header is
\* never shown together with an error message, and never without the plan
\* text.
C8_NoPartialOutput ==
    Submitted =>
        /\ Count(display, IsPlan) + Count(display, IsFailed)
               + Count(display, IsCaught) = 1
        /\ ~(Shows(HEADER) /\ ShowsKind(display, "error"))
        /\ Shows(HEADER) => ShowsKind(display, "markdown")

AfterFailure == Submitted /\ before \in {"failed", "exception"}
EndedInError == Terminal(trigger, display) \in {"failed", "exception"}
ResubmitStep == EndedInError /\ trigger' = "submit" /\ runs' = runs + 1

\* What a submission must end with, from what the service did alone.
ExpectedEnd(r) ==
    IF RaisedBy(r) # None THEN El("error", ERR_PREFIX \o RaisedBy(r)[1])
    ELSE IF r.truthy /\ r.attr = "present" THEN El("markdown", r.text)
    ELSE FAILED

\* C9 as stated: after a submission that ended in the generic failure message
\* or in the exception message, the next submission takes the current field
\* values, issues a new call with the prompt built from them, and ends as
\* that call's result says.
C9_ResubmitCallsAgain ==
    [][ ResubmitStep =>
            /\ committed' = pending
            /\ sent' # None
            /\ calls' = calls + 1
            /\ Last(display') = ExpectedEnd(outcome'[1])
      ]_vars

\* C9 as amended: both error outcomes leave the form in place and nothing
\* behind: after a submission that ended in the generic failure message or
\* in the exception message the user can submit again; the new submission
\* takes the current field values, issues a new call with the prompt built
\* from them unless constructing the model raises (then none), and what it
\* shows depends only on what the service did in this submission.
C9_ResubmitFresh ==
    /\ [](EndedInError =>
             /\ status = "completed"
             /\ Shows(FORM)
             /\ runs < MaxRuns => ENABLED SubmitForm)
    /\ [][ ResubmitStep =>
             /\ committed' = pending
             /\ outcome'[1].ctor = None =>
                    /\ sent' # None
                    /\ Len(sent'[1]) = 23
                    /\ \A f \in DOMAIN SlotOf \ OptionalFields :
                          sent'[1][SlotOf[f]] = Shown(pending)[f]
                    /\ \A f \in OptionalFields :
                          sent'[1][SlotOf[f]] \in {pending[f], "None"}
                    /\ calls' = calls + 1
             /\ outcome'[1].ctor # None => sent' = None /\ calls' = calls
             /\ Last(display') = ExpectedEnd(outcome'[1])
             /\ SubSeq(display', 1, 4) = Page
             /\ Len(display') \in 5..6
             /\ Len(display') = 6 => display'[5] = HEADER
         ]_vars

\* C9: a submission that ended in the failure message was followed by a
\* submission of other field values that ended in the plan.
C9_Witness ==
    /\ AfterFailure
    /\ before = "failed"
    /\ committed # DefaultProfile
    /\ committed = pending
    /\ sent # None
    /\ Last(display) = El("markdown", "Day 1: oats")

====
